---- MODULE Spec2Model ----
(***************************************************************************)
(* Model of the UK visa cost calculator (js/calculator.js).                *)
(*                                                                         *)
(* JavaScript values are encoded as follows.                               *)
(*   - A value that may be null or undefined is a sequence of length at    *)
(*     most one: Null (<<>>) is null/undefined, Some(v) (<<v>>) is v.      *)
(*   - Strings are TLA+ strings; String.prototype.includes is Includes.    *)
(*   - Arrays are sequences; Array.prototype.includes is InArray.          *)
(*   - The amounts of the fee and rule tables are whole pounds.  An amount *)
(*     calculate computes (a line's amount, the total) is a whole number   *)
(*     of pence: Pence(n) is the JavaScript number n, and 51750 is 517.5.  *)
(*     rate * (halfYears * 0.5) * heads is a multiple of half a pound, so  *)
(*     it is a whole number of pence.                                      *)
(*   - An exception leaving calculate is a result record whose kind is     *)
(*     "error" (the explicit throw) or "TypeError" (a property read on     *)
(*     null/undefined).                                                    *)
(***************************************************************************)
EXTENDS Integers, Sequences, FiniteSets, TLC

VARIABLES
    routes, fees, rules,    \* Calculator.routes / fees / rules
    params, result,         \* the last call of Calculator.calculate and its outcome
    cache,                  \* DataLoader.cache
    reqs, inits,            \* the calls of DataLoader.load and of Calculator.init
    server,                 \* which data files the web server holds (see Bodies)
    cleared,                \* whether DataLoader.clearCache has been called
    form, fields,           \* the rendered form; the field texts of the last submit
    display, calls,         \* content of #calc-result; calculate calls of the last submit
    scriptRun,              \* the last run of scripts/validate.js
    pathname, resolved      \* window.location.pathname; the last resolvePath result

calcVars == <<routes, fees, rules, params, result>>
loaderVars == <<cache, reqs, inits, server, cleared>>
formVars == <<form, fields, display, calls>>
scriptVars == <<scriptRun>>
pageVars == <<pathname, resolved>>

vars == <<calcVars, loaderVars, formVars, scriptVars, pageVars>>

(***************************************************************************)
(* Bounds of the explored inputs.                                          *)
(***************************************************************************)
MaxApplicants == 2
MaxDependants == 1

(***************************************************************************)
(* JavaScript helpers.                                                     *)
(***************************************************************************)
Null == <<>>
Some(v) == <<v>>

\* String.prototype.includes: sub occurs in s as a contiguous substring.
Includes(s, sub) ==
    \E i \in 1..(Len(s) - Len(sub) + 1) : SubSeq(s, i, i + Len(sub) - 1) = sub

\* Array.prototype.includes: x is an element of the array.
InArray(arr, x) == \E i \in 1..Len(arr) : arr[i] = x

\* Math.ceil(a / b) for an integer a and a positive integer b.
\* The amount of n pounds.
Pence(n) == 100 * n

Ceil(a, b) == -((-a) \div b)

\* ToNumber of a nullable number in a multiplication: null * n is 0.
ToNumber(opt) == IF opt = Null THEN 0 ELSE opt[1]

\* Truthiness of a nullable number: null and 0 are falsy.
Truthy(opt) == opt # Null /\ opt[1] # 0

\* Array.prototype.find on an array of strings: first element containing sub.
FindIncluding(arr, sub) ==
    LET hits == {i \in 1..Len(arr) : Includes(arr[i], sub)}
    IN  IF hits = {} THEN Null
        ELSE Some(arr[CHOOSE i \in hits : \A j \in hits : i <= j])

(***************************************************************************)
(* Input data.  The three tables are static JSON files that are not part   *)
(* of the calculator; the sets below enumerate tables of the documented    *)
(* shape (README, "Data-Driven") and tables that break the invariants the  *)
(* offline validation script is meant to enforce (missing fee entries).    *)
(***************************************************************************)
RouteIds == <<"skilled-worker", "indefinite-leave-to-remain", "british-citizenship">>
UnknownRouteId == "no-such-route"
LastReviewed == <<"2024-01-15", "2024-02-20", "2024-03-31">>

IhsPolicies == {"required", "required_student", "not_required", "exempt"}

FeeItemLists ==
    { <<>>,
      <<"fee_outside_uk", "fee_inside_uk">>,
      <<"visa_fee", "fee_inside_uk", "alt_inside_uk">>,
      <<"fee_outside_uk">> }

ExtrasLists ==
    { <<>>,
      <<"priority">>,
      <<"priority", "super_priority">>,
      <<"citizenship_ceremony">>,
      <<"super_priority", "citizenship_ceremony", "priority">> }

\* A route table with one route per identifier of RouteIds.
RouteTable(ihs, items, extras) ==
    [i \in 1..Len(RouteIds) |->
        [route_id |-> RouteIds[i],
         ihs_policy |-> ihs,
         fee_items |-> items,
         extras_supported |-> extras,
         last_reviewed |-> LastReviewed[i]]]

RouteTables ==
    {RouteTable(ihs, items, extras) :
        ihs \in IhsPolicies, items \in FeeItemLists, extras \in ExtrasLists}

FeeKeys ==
    {"visa_fee", "fee_inside_uk", "fee_outside_uk", "alt_inside_uk",
     "priority", "super_priority", "citizenship_ceremony"}

Fee(inside, outside) == [amount_inside_uk |-> inside, amount_outside_uk |-> outside]

\* Every key present; amounts pairwise distinct so that a wrong lookup shows.
BaseFees ==
    [k \in FeeKeys |->
        CASE k = "visa_fee"             -> Some(Fee(Some(827), Some(719)))
          [] k = "fee_inside_uk"        -> Some(Fee(Some(885), Null))
          [] k = "fee_outside_uk"       -> Some(Fee(Null, Some(769)))
          [] k = "alt_inside_uk"        -> Some(Fee(Some(1048), Some(0)))
          [] k = "priority"             -> Some(Fee(Some(500), Some(250)))
          [] k = "super_priority"       -> Some(Fee(Some(1000), Some(956)))
          [] k = "citizenship_ceremony" -> Some(Fee(Some(130), Some(80)))]

\* Priority fees with one location not offered (null), and a free service.
NullableFees ==
    [k \in FeeKeys |->
        CASE k = "priority"             -> Some(Fee(Null, Some(250)))
          [] k = "super_priority"       -> Some(Fee(Some(1000), Null))
          [] k = "citizenship_ceremony" -> Some(Fee(Some(130), Null))
          [] k = "visa_fee"             -> Some(Fee(Some(0), Some(719)))
          [] OTHER                      -> BaseFees[k]]

\* The fee table t with the entries of the keys in gone removed.
Without(t, gone) == [k \in FeeKeys |-> IF k \in gone THEN Null ELSE t[k]]

MissingKeySets ==
    { {},
      {"priority"},
      {"super_priority"},
      {"citizenship_ceremony"},
      {"visa_fee", "fee_outside_uk"} }

FeeTables == {Without(BaseFees, gone) : gone \in MissingKeySets} \cup {NullableFees}

RulesTables ==
    { [ihs_rates |-> [standard |-> [rate_per_year |-> 1035],
                      student  |-> [rate_per_year |-> 776]]] }

ApplyFromValues == {"inside_uk", "outside_uk", "both"}
Durations == {0, 1, 6, 7, 12}

ParamsSet ==
    [routeId : {RouteIds[i] : i \in 1..Len(RouteIds)} \cup {UnknownRouteId},
     applyFrom : ApplyFromValues,
     duration : Durations,
     applicants : 1..MaxApplicants,
     dependants : 0..MaxDependants,
     addPriority : BOOLEAN,
     addSuperPriority : BOOLEAN]

(***************************************************************************)
(* Calculator (js/calculator.js).  this.routes, this.fees and this.rules   *)
(* are the variables routes, fees and rules; each is Null until init has   *)
(* stored the loaded table.                                                *)
(***************************************************************************)

\* Variant of findRoute: an identifier that matches nothing yields the first
\* route of the table.
findRoute_DefaultsToFirst(routeId) ==
    LET table == routes[1]
        hits == {i \in 1..Len(table) : table[i].route_id = routeId}
    IN  IF hits = {} THEN Some(table[1])
        ELSE Some(table[CHOOSE i \in hits : \A j \in hits : i <= j])

\* this.routes.find(r => r.route_id === routeId)
findRoute(routeId) ==
    LET table == routes[1]
        hits == {i \in 1..Len(table) : table[i].route_id = routeId}
    IN  IF hits = {} THEN Null
        ELSE Some(table[CHOOSE i \in hits : \A j \in hits : i <= j])

\* parseInt(applicants) + parseInt(dependants)
totalApplicants(p) == p.applicants + p.dependants

\* Variant of Push: the line is put in front of the breakdown (unshift).
Push_Front(acc, item, amount) ==
    [acc EXCEPT !.breakdown = <<[item |-> item, amount |-> amount]>> \o @,
                !.total = @ + amount]

\* breakdown.push({item, amount}); total += amount
Push(acc, item, amount) ==
    [acc EXCEPT !.breakdown = Append(@, [item |-> item, amount |-> amount]),
                !.total = @ + amount]

\* A property read on undefined: the TypeError leaves calculate.
Throw(acc) == [acc EXCEPT !.threw = TRUE]

getFeeKey(route, applyFrom) ==
    LET feeItems == route.fee_items
    IN  IF Len(feeItems) = 0 THEN Null
        ELSE LET found == FindIncluding(feeItems,
                             IF applyFrom = "inside_uk" THEN "inside" ELSE "outside")
             IN  IF found # Null THEN found ELSE Some(feeItems[1])

\* Variant of getFeeAmount: no fallback to the other location's amount.
getFeeAmount_NoFallback(feeKey, applyFrom) ==
    LET fee == fees[1][feeKey]
    IN  IF fee = Null THEN 0
        ELSE IF applyFrom = "inside_uk" /\ fee[1].amount_inside_uk # Null
                THEN fee[1].amount_inside_uk[1]
        ELSE IF applyFrom = "outside_uk" /\ fee[1].amount_outside_uk # Null
                THEN fee[1].amount_outside_uk[1]
        ELSE 0

getFeeAmount(feeKey, applyFrom) ==
    LET fee == fees[1][feeKey]
    IN  IF fee = Null THEN 0
        ELSE IF applyFrom = "inside_uk" /\ fee[1].amount_inside_uk # Null
                THEN fee[1].amount_inside_uk[1]
        ELSE IF applyFrom = "outside_uk" /\ fee[1].amount_outside_uk # Null
                THEN fee[1].amount_outside_uk[1]
        ELSE IF Truthy(fee[1].amount_inside_uk) THEN fee[1].amount_inside_uk[1]
        ELSE IF Truthy(fee[1].amount_outside_uk) THEN fee[1].amount_outside_uk[1]
        ELSE 0

\* The nullable amount read by getPriorityFee / getSuperPriorityFee from a
\* fee entry that exists.
locationAmount(fee, applyFrom) ==
    IF applyFrom = "inside_uk" THEN fee.amount_inside_uk ELSE fee.amount_outside_uk

\* Null when this.fees['priority'] is undefined (the read of its amount throws).
getPriorityFee(applyFrom) ==
    LET fee == fees[1]["priority"]
    IN  IF fee = Null THEN Null ELSE Some(locationAmount(fee[1], applyFrom))

getSuperPriorityFee(applyFrom) ==
    LET fee == fees[1]["super_priority"]
    IN  IF fee = Null THEN Null ELSE Some(locationAmount(fee[1], applyFrom))

\* Variant of calculateIHS: Math.floor in place of Math.ceil.
calculateIHS_RoundsDown(route, durationMonths, applicants, dependants) ==
    LET rate == IF route.ihs_policy = "required_student"
                    THEN rules[1].ihs_rates.student.rate_per_year
                    ELSE rules[1].ihs_rates.standard.rate_per_year
        halfYears == durationMonths \div 6
    IN  (Pence(rate) * halfYears * (applicants + dependants)) \div 2

calculateIHS(route, durationMonths, applicants, dependants) ==
    LET rate == IF route.ihs_policy = "required_student"
                    THEN rules[1].ihs_rates.student.rate_per_year
                    ELSE rules[1].ihs_rates.standard.rate_per_year
        halfYears == Ceil(durationMonths, 6)
    IN  (Pence(rate) * halfYears * (applicants + dependants)) \div 2

applicationFeeLabel(n) ==
    "Application Fee (" \o ToString(n) \o " applicant"
        \o (IF n > 1 THEN "s" ELSE "") \o ")"

\* Lines 50-62.
applicationFeeStep(acc, route, p) ==
    LET feeKey == getFeeKey(route, p.applyFrom)
    IN  IF feeKey # Null /\ fees[1][feeKey[1]] # Null
            THEN Push(acc, applicationFeeLabel(totalApplicants(p)),
                      Pence(getFeeAmount(feeKey[1], p.applyFrom) * totalApplicants(p)))
            ELSE acc

\* Variant of ihsStep: only 'not_required' skips the surcharge.
ihsStep_ExemptCharged(acc, route, p) ==
    IF route.ihs_policy # "not_required"
        THEN LET ihsCost == calculateIHS(route, p.duration, p.applicants, p.dependants)
             IN  IF ihsCost > 0
                    THEN Push(acc, "Immigration Health Surcharge", ihsCost)
                    ELSE acc
        ELSE acc

\* Lines 64-74.
ihsStep(acc, route, p) ==
    IF route.ihs_policy # "not_required" /\ route.ihs_policy # "exempt"
        THEN LET ihsCost == calculateIHS(route, p.duration, p.applicants, p.dependants)
             IN  IF ihsCost > 0
                    THEN Push(acc, "Immigration Health Surcharge", ihsCost)
                    ELSE acc
        ELSE acc

\* Variant of priorityStep: the route's supported extras are not consulted.
priorityStep_IgnoresSupport(acc, route, p) ==
    IF acc.threw THEN acc
    ELSE IF p.addPriority
        THEN LET fee == getPriorityFee(p.applyFrom)
             IN  IF fee = Null THEN Throw(acc)
                 ELSE Push(acc, "Priority Service",
                           Pence(ToNumber(fee[1]) * totalApplicants(p)))
        ELSE acc

\* Lines 76-84.
priorityStep(acc, route, p) ==
    IF acc.threw THEN acc
    ELSE IF p.addPriority /\ InArray(route.extras_supported, "priority")
        THEN LET fee == getPriorityFee(p.applyFrom)
             IN  IF fee = Null THEN Throw(acc)
                 ELSE Push(acc, "Priority Service",
                           Pence(ToNumber(fee[1]) * totalApplicants(p)))
        ELSE acc

\* Lines 86-93.
superPriorityStep(acc, route, p) ==
    IF acc.threw THEN acc
    ELSE IF p.addSuperPriority /\ InArray(route.extras_supported, "super_priority")
        THEN LET fee == getSuperPriorityFee(p.applyFrom)
             IN  IF fee = Null THEN Throw(acc)
                 ELSE Push(acc, "Super Priority Service",
                           Pence(ToNumber(fee[1]) * totalApplicants(p)))
        ELSE acc

\* Variant of ceremonyStep: the ceremony fee depends on the location.
ceremonyStep_ByLocation(acc, route, p) ==
    IF acc.threw THEN acc
    ELSE IF InArray(route.extras_supported, "citizenship_ceremony")
        THEN LET fee == fees[1]["citizenship_ceremony"]
             IN  IF fee = Null THEN Throw(acc)
                 ELSE Push(acc, "Citizenship Ceremony",
                           Pence(ToNumber(locationAmount(fee[1], p.applyFrom))
                                     * totalApplicants(p)))
        ELSE acc

\* Lines 95-103.
ceremonyStep(acc, route, p) ==
    IF acc.threw THEN acc
    ELSE IF InArray(route.extras_supported, "citizenship_ceremony")
        THEN LET fee == fees[1]["citizenship_ceremony"]
             IN  IF fee = Null THEN Throw(acc)
                 ELSE Push(acc, "Citizenship Ceremony",
                           Pence(ToNumber(fee[1].amount_inside_uk) * totalApplicants(p)))
        ELSE acc

\* Variant of lifeInUKStep: the line is pushed but the total is not updated.
lifeInUKStep_TotalNotUpdated(acc, routeId, p) ==
    IF acc.threw THEN acc
    ELSE IF Includes(routeId, "indefinite-leave") \/ Includes(routeId, "citizenship")
        THEN [acc EXCEPT !.breakdown =
                 Append(@, [item |-> "Life in the UK Test",
                            amount |-> Pence(50 * totalApplicants(p))])]
        ELSE acc

\* Variant of lifeInUKStep: only 'citizenship' identifiers get the test.
lifeInUKStep_CitizenshipOnly(acc, routeId, p) ==
    IF acc.threw THEN acc
    ELSE IF Includes(routeId, "citizenship")
        THEN Push(acc, "Life in the UK Test", Pence(50 * totalApplicants(p)))
        ELSE acc

\* Lines 105-113.
lifeInUKStep(acc, routeId, p) ==
    IF acc.threw THEN acc
    ELSE IF Includes(routeId, "indefinite-leave") \/ Includes(routeId, "citizenship")
        THEN Push(acc, "Life in the UK Test", Pence(50 * totalApplicants(p)))
        ELSE acc

\* The outcome of Calculator.calculate(p): the returned object, or the
\* exception that left the call.
calculate(p) ==
    IF routes = Null THEN [kind |-> "TypeError"]
    ELSE
    LET found == findRoute(p.routeId)
    IN  IF found = Null THEN [kind |-> "error", message |-> "Route not found"]
        ELSE
        LET route == found[1]
            a0 == [breakdown |-> <<>>, total |-> 0, threw |-> FALSE]
            a1 == applicationFeeStep(a0, route, p)
            a2 == ihsStep(a1, route, p)
            a3 == priorityStep(a2, route, p)
            a4 == superPriorityStep(a3, route, p)
            a5 == ceremonyStep(a4, route, p)
            a6 == lifeInUKStep(a5, p.routeId, p)
        IN  IF a6.threw THEN [kind |-> "TypeError"]
            ELSE [kind |-> "ok",
                  breakdown |-> a6.breakdown,
                  total |-> a6.total,
                  lastReviewed |-> route.last_reviewed]

(***************************************************************************)
(* Data loader (js/data-loader.js): the URLs of the three tables as         *)
(* resolved from the root page, the site configuration and the content    *)
(* file of a route.                                                        *)
(***************************************************************************)
RoutesUrl == "./data/routes.json"
FeesUrl == "./data/fees.json"
RulesUrl == "./data/rules.json"
SiteUrl == "./data/site.json"
ContentUrl == "./content/routes/skilled-worker.json"

Urls == {RoutesUrl, FeesUrl, RulesUrl, SiteUrl, ContentUrl}

\* cache: {}
EmptyCache == [u \in Urls |-> Null]

\* The body of site.json.
SiteConfig == [site_name |-> "UK Visa Calculator"]

\* The body of a route's content file.
RouteContent == [intro |-> "Work in the UK for an approved employer."]

\* The bodies the server may answer a request for url with: one of the
\* tables of R, F and U, the site configuration, and for the content file
\* its content or null (a file that holds the JSON text null).
Serving(R, F, U, url) ==
    CASE url = RoutesUrl -> R
      [] url = FeesUrl   -> F
      [] url = RulesUrl  -> U
      [] url = SiteUrl   -> {SiteConfig}
      [] OTHER           -> {RouteContent, Null}

(***************************************************************************)
(* Actions.                                                                *)
(***************************************************************************)
\* The page has loaded its scripts: the calculator and the loader are as
\* constructed.
Fresh ==
    /\ routes = Null
    /\ fees = Null
    /\ rules = Null
    /\ params = Null
    /\ result = Null
    /\ cache = EmptyCache
    /\ reqs = <<>>
    /\ inits = <<>>
    /\ cleared = FALSE
    /\ form = Null
    /\ fields = Null
    /\ display = Null
    /\ calls = 0
    /\ scriptRun = Null
    /\ pathname = Null
    /\ resolved = Null

\* The page after Calculator.init has run once on the fresh page and set the
\* tables R, F and U: its three loads are done and their bodies cached.
Initialized(R, F, U) ==
    /\ routes = Some(R)
    /\ fees = Some(F)
    /\ rules = Some(U)
    /\ params = Null
    /\ result = Null
    /\ cache = [EmptyCache EXCEPT ![RoutesUrl] = Some(R),
                                  ![FeesUrl] = Some(F),
                                  ![RulesUrl] = Some(U)]
    /\ reqs = <<[url |-> RoutesUrl, by |-> 1, pc |-> "done", fetched |-> TRUE,
                 value |-> Some(R)],
                [url |-> FeesUrl, by |-> 1, pc |-> "done", fetched |-> TRUE,
                 value |-> Some(F)],
                [url |-> RulesUrl, by |-> 1, pc |-> "done", fetched |-> TRUE,
                 value |-> Some(U)]>>
    /\ inits = <<[pc |-> "done", first |-> 1]>>
    /\ cleared = FALSE
    /\ form = Null
    /\ fields = Null
    /\ display = Null
    /\ calls = 0
    /\ scriptRun = Null
    /\ pathname = Null
    /\ resolved = Null

\* The calculator is explored on the fresh page (no table set) and on the
\* page init has set up, with every table of the input data.  The steps of
\* init itself are those of SpecLoader.
Init ==
    /\ server = "input data"
    /\ \/ Fresh
       \/ \E R \in RouteTables, F \in FeeTables, U \in RulesTables :
              Initialized(R, F, U)

\* A call of Calculator.calculate(p): runs to its return or throw.
Calculate ==
    /\ result = Null
    /\ \E p \in ParamsSet :
          /\ params' = Some(p)
          /\ result' = Some(calculate(p))
    /\ UNCHANGED <<routes, fees, rules>>
    /\ UNCHANGED <<loaderVars, formVars, scriptVars, pageVars>>

\* The caller has consumed the outcome; the parameters are discarded.
Return ==
    /\ result # Null
    /\ params' = Null
    /\ result' = Null
    /\ UNCHANGED <<routes, fees, rules>>
    /\ UNCHANGED <<loaderVars, formVars, scriptVars, pageVars>>

(***************************************************************************)
(* Vocabulary of the properties.  These definitions describe what a call   *)
(* returned; they do not use the calculator's operators.                   *)
(***************************************************************************)
Called == result # Null /\ routes # Null
Returned == Called /\ result[1].kind = "ok"

TableIds == {routes[1][i].route_id : i \in 1..Len(routes[1])}
KnownRoute == params[1].routeId \in TableIds

\* The route of the table the call's identifier names (identifiers are unique
\* in the tables explored).
CalledRoute ==
    routes[1][CHOOSE i \in 1..Len(routes[1]) :
                  routes[1][i].route_id = params[1].routeId]

Heads == params[1].applicants + params[1].dependants

IsKind(line, name) ==
    IF name = "Application Fee"
        THEN Len(line.item) >= Len(name) /\ SubSeq(line.item, 1, Len(name)) = name
        ELSE line.item = name

LinesOf(name) ==
    {i \in 1..Len(result[1].breakdown) : IsKind(result[1].breakdown[i], name)}

HasLine(name) == LinesOf(name) # {}

\* The amount of the (first) line of the given kind.
AmountOf(name) ==
    result[1].breakdown[CHOOSE i \in LinesOf(name) : \A j \in LinesOf(name) : i <= j].amount

RECURSIVE SumAmounts(_)
SumAmounts(lines) ==
    IF lines = <<>> THEN 0 ELSE lines[1].amount + SumAmounts(Tail(lines))

Supports(extra) ==
    \E i \in 1..Len(CalledRoute.extras_supported) : CalledRoute.extras_supported[i] = extra

IhsSkipped == CalledRoute.ihs_policy \in {"not_required", "exempt"}

\* C1: for every successful calculate call the returned total equals the sum
\* of the amounts of the line items of the returned breakdown.
C1_TotalIsSumOfLines ==
    Returned => result[1].total = SumAmounts(result[1].breakdown)

C1_Witness ==
    /\ Returned
    /\ Len(result[1].breakdown) >= 4
    /\ result[1].total > 0

\* C2: a call whose route identifier matches no route of the loaded table
\* fails with 'Route not found' and carries no breakdown and no total.
C2_UnknownRouteFails ==
    (Called /\ ~KnownRoute) =>
        result[1] = [kind |-> "error", message |-> "Route not found"]

C2_Witness ==
    /\ Called
    /\ params[1].routeId = UnknownRouteId
    /\ params[1].addPriority
    /\ result[1].kind = "error"

\* C3: route-not-found is the only error outcome: a call for a known route
\* returns a breakdown for every fee table, also one that lacks an entry.
C3_OnlyRouteNotFoundFails ==
    (Called /\ KnownRoute) => result[1].kind = "ok"

\* C4: for a route whose IHS policy is 'not_required' or 'exempt' the
\* breakdown never contains an 'Immigration Health Surcharge' line.
C4_NoIHSLineWhenNotRequired ==
    (Returned /\ IhsSkipped) => ~HasLine("Immigration Health Surcharge")

C4_Witness ==
    /\ Returned
    /\ CalledRoute.ihs_policy = "exempt"
    /\ params[1].duration = 12
    /\ Len(result[1].breakdown) >= 1

\* The number of half-years billed for m months: the least k with m <= 6k.
BilledHalfYears(m) == CHOOSE k \in 0..m : 6 * (k - 1) < m /\ m <= 6 * k

IhsRate ==
    IF CalledRoute.ihs_policy = "required_student"
        THEN rules[1].ihs_rates.student.rate_per_year
        ELSE rules[1].ihs_rates.standard.rate_per_year

\* C5: for a route whose IHS policy is neither 'not_required' nor 'exempt'
\* the IHS amount is rate x (ceil(months / 6) x 0.5) x (applicants +
\* dependants), with the student rate for 'required_student' and the standard
\* rate otherwise, and the IHS line is present exactly when it is positive.
C5_IHSAmount ==
    (Returned /\ ~IhsSkipped) =>
        LET twice == IhsRate * BilledHalfYears(params[1].duration) * Heads
        IN  /\ HasLine("Immigration Health Surcharge") <=> twice > 0
            /\ HasLine("Immigration Health Surcharge") =>
                  2 * AmountOf("Immigration Health Surcharge") = Pence(twice)

\* One half-year at the standard rate for three heads: 1552.50 pounds.
C5_Witness ==
    /\ Returned
    /\ CalledRoute.ihs_policy = "required"
    /\ params[1].duration = 6
    /\ Heads = 3
    /\ HasLine("Immigration Health Surcharge")
    /\ AmountOf("Immigration Health Surcharge") = 155250

\* The flat fee of a service for the requested location; a null amount
\* counts as zero.
FlatFee(key) ==
    LET entry == fees[1][key][1]
        amount == IF params[1].applyFrom = "inside_uk"
                      THEN entry.amount_inside_uk ELSE entry.amount_outside_uk
    IN  IF amount = <<>> THEN 0 ELSE amount[1]

\* C6: a 'Priority Service' line appears iff addPriority is set and the route
\* supports 'priority', a 'Super Priority Service' line iff addSuperPriority
\* is set and the route supports 'super_priority'; the amount of each is the
\* service's flat fee for the apply-from location x (applicants + dependants).
C6_PriorityLines ==
    Returned =>
        /\ HasLine("Priority Service") <=>
              (params[1].addPriority /\ Supports("priority"))
        /\ HasLine("Super Priority Service") <=>
              (params[1].addSuperPriority /\ Supports("super_priority"))
        /\ HasLine("Priority Service") =>
              AmountOf("Priority Service") = Pence(FlatFee("priority") * Heads)
        /\ HasLine("Super Priority Service") =>
              AmountOf("Super Priority Service") = Pence(FlatFee("super_priority") * Heads)

C6_Witness ==
    /\ Returned
    /\ params[1].applyFrom = "inside_uk"
    /\ HasLine("Priority Service")
    /\ HasLine("Super Priority Service")
    /\ AmountOf("Priority Service") = Pence(500 * Heads)
    /\ AmountOf("Super Priority Service") = Pence(1000 * Heads)

\* s contains sub as a contiguous substring.
HasSubstring(s, sub) ==
    \E i \in 1..Len(s) : i + Len(sub) - 1 <= Len(s) /\ SubSeq(s, i, i + Len(sub) - 1) = sub

\* The declared fee key the application fee step is to use: the first key
\* naming the location, else the first declared key.
ExpectedFeeKey ==
    LET items == CalledRoute.fee_items
        needle == IF params[1].applyFrom = "inside_uk" THEN "inside" ELSE "outside"
        matching == {i \in 1..Len(items) : HasSubstring(items[i], needle)}
    IN  IF matching = {} THEN items[1]
        ELSE items[CHOOSE i \in matching : \A j \in matching : i <= j]

\* The per-head application fee: the entry's amount for the requested
\* location, or its other amount when the requested one is null.
ExpectedPerHead ==
    LET entry == fees[1][ExpectedFeeKey][1]
        inside == params[1].applyFrom = "inside_uk"
        requested == IF inside THEN entry.amount_inside_uk ELSE entry.amount_outside_uk
        other == IF inside THEN entry.amount_outside_uk ELSE entry.amount_inside_uk
    IN  IF requested # <<>> THEN requested[1] ELSE other[1]

\* C7: the application fee step picks the first declared fee key containing
\* 'inside' (applying from inside the UK) or 'outside' (otherwise), else the
\* first declared key; the per-head amount is that entry's amount for the
\* requested location, or its other amount when the requested one is null;
\* the line's amount is the per-head amount x (applicants + dependants).
C7_ApplicationFee ==
    Returned =>
        /\ HasLine("Application Fee") <=>
              (CalledRoute.fee_items # <<>> /\ fees[1][ExpectedFeeKey] # <<>>)
        /\ (HasLine("Application Fee")
                /\ params[1].applyFrom \in {"inside_uk", "outside_uk"}) =>
              AmountOf("Application Fee") = Pence(ExpectedPerHead * Heads)

\* The requested location's amount is null and the other amount is used.
C7_Witness ==
    /\ Returned
    /\ params[1].applyFrom = "inside_uk"
    /\ CalledRoute.fee_items = <<"fee_outside_uk">>
    /\ Heads = 2
    /\ HasLine("Application Fee")
    /\ AmountOf("Application Fee") = Pence(769 * 2)

KindsInOrder ==
    <<"Application Fee", "Immigration Health Surcharge", "Priority Service",
      "Super Priority Service", "Citizenship Ceremony", "Life in the UK Test">>

\* The position of a line's kind in the fixed order; 0 for an unknown kind.
Rank(line) ==
    IF \E k \in 1..Len(KindsInOrder) : IsKind(line, KindsInOrder[k])
        THEN CHOOSE k \in 1..Len(KindsInOrder) : IsKind(line, KindsInOrder[k])
        ELSE 0

\* C8: the breakdown lists its lines in the fixed relative order Application
\* Fee, Immigration Health Surcharge, Priority Service, Super Priority
\* Service, Citizenship Ceremony, Life in the UK Test, each kind at most
\* once, and the result carries the route's last_reviewed value unmodified.
C8_FixedOrder ==
    Returned =>
        LET b == result[1].breakdown
        IN  /\ \A i \in 1..Len(b) : Rank(b[i]) > 0
            /\ \A i, j \in 1..Len(b) : i < j => Rank(b[i]) < Rank(b[j])
            /\ result[1].lastReviewed = CalledRoute.last_reviewed

C8_Witness ==
    /\ Returned
    /\ Len(result[1].breakdown) = 6
    /\ params[1].routeId = "british-citizenship"
    /\ result[1].lastReviewed = "2024-03-31"

\* C9: a 'Life in the UK Test' line appears iff the route identifier contains
\* 'indefinite-leave' or 'citizenship', whatever the route's configuration
\* and the priority flags; its amount is 50 x (applicants + dependants), 100
\* for a head-count of 2.
C9_LifeInUKTest ==
    Returned =>
        /\ HasLine("Life in the UK Test") <=>
              params[1].routeId \in {"indefinite-leave-to-remain", "british-citizenship"}
        /\ HasLine("Life in the UK Test") =>
              /\ AmountOf("Life in the UK Test") = Pence(50 * Heads)
              /\ Heads = 2 => AmountOf("Life in the UK Test") = Pence(100)

C9_Witness ==
    /\ Returned
    /\ params[1].routeId = "british-citizenship"
    /\ CalledRoute.extras_supported = <<>>
    /\ CalledRoute.ihs_policy = "not_required"
    /\ ~params[1].addPriority
    /\ Heads = 2
    /\ HasLine("Life in the UK Test")
    /\ AmountOf("Life in the UK Test") = Pence(100)

\* C10: a 'Citizenship Ceremony' line appears iff the route supports
\* 'citizenship_ceremony', whatever addPriority, addSuperPriority and the
\* apply-from location are; its amount is the fixed ceremony fee x
\* (applicants + dependants).
C10_CitizenshipCeremony ==
    Returned =>
        /\ HasLine("Citizenship Ceremony") <=> Supports("citizenship_ceremony")
        /\ HasLine("Citizenship Ceremony") =>
              AmountOf("Citizenship Ceremony") =
                  Pence(fees[1]["citizenship_ceremony"][1].amount_inside_uk[1] * Heads)

C10_Witness ==
    /\ Returned
    /\ params[1].applyFrom = "outside_uk"
    /\ ~params[1].addPriority
    /\ ~params[1].addSuperPriority
    /\ params[1].routeId = "skilled-worker"
    /\ HasLine("Citizenship Ceremony")
    /\ AmountOf("Citizenship Ceremony") = Pence(130 * Heads)

(***************************************************************************)
(* DataLoader.load and Calculator.init as they run: a call of load is a    *)
(* record of reqs, a call of init a record of inits.  The steps of a call  *)
(* are the synchronous stretches between its awaits.                       *)
(***************************************************************************)
\* At most MaxCalls calls of load and init by the page, and at most
\* MaxRequests calls of load in all (a call of init makes three).
MaxCalls == 2
MaxRequests == 6

\* The tables of the deployment the loader is explored with.
ServedRoutes == RouteTable("required", <<"fee_outside_uk", "fee_inside_uk">>, <<"priority">>)
ServedRules == CHOOSE u \in RulesTables : TRUE


\* The routes table of the page the form is explored on.
FormRoute(id, from, policy, options, max, ihs, items, extras) ==
    [route_id |-> id, apply_from_options |-> from, duration_policy |-> policy,
     duration_options |-> options, max_duration_months |-> max,
     ihs_policy |-> ihs, fee_items |-> items, extras_supported |-> extras,
     last_reviewed |-> "2024-01-15"]

FormRoutes ==
    << FormRoute("skilled-worker", "both", "custom", Null, Some(60), "required",
                 <<"fee_outside_uk", "fee_inside_uk">>, <<"priority", "super_priority">>),
       FormRoute("standard-visitor", "outside_uk", "fixed", Some(<<6, 24>>), Null,
                 "not_required", <<"visa_fee">>, <<"priority">>),
       FormRoute("indefinite-leave-to-remain", "inside_uk", "permanent", Null, Null,
                 "not_required", <<"fee_inside_uk">>, <<"super_priority">>),
       FormRoute("british-citizenship", "inside_uk", "permanent", Null, Null,
                 "exempt", <<"alt_inside_uk">>, <<"citizenship_ceremony">>),
       FormRoute("transit", "", "none", Null, Null,
                 "not_required", <<"visa_fee">>, <<>>) >>

InitSite == Fresh /\ server = "site"

\* The bodies the server may answer a request for url with.  "input data":
\* any table of the input data; "site": the tables above; otherwise the
\* tables of the form's page.
Bodies(url) ==
    CASE server = "input data" -> Serving(RouteTables, FeeTables, RulesTables, url)
      [] server = "site"       -> Serving({ServedRoutes}, {BaseFees}, {ServedRules}, url)
      [] OTHER                 -> Serving({FormRoutes}, {BaseFees}, {ServedRules}, url)

\* The files page scripts ask for (getRoutes, getFees, getRules,
\* getSiteConfig, getRouteContent, getRouteById and friends).
PageUrls == Urls

PageLoads == {i \in 1..Len(reqs) : reqs[i].by = 0}

\* The calls made so far into the loader by the page and into init.
CallsMade == Cardinality(PageLoads) + Len(inits)

\* if (this.cache[url]): the cache has the key and its value is truthy
\* (a cached null is not).
cacheHit(url) == cache[url] # Null /\ cache[url][1] # Null

\* load(url) up to its first await: a cached value is returned at once,
\* otherwise fetch(url) is issued.  by is the calling init (0: none).
loadStart(url, by) ==
    IF cacheHit(url)
        THEN [url |-> url, by |-> by, pc |-> "done", fetched |-> FALSE,
              value |-> cache[url]]
        ELSE [url |-> url, by |-> by, pc |-> "fetching", fetched |-> TRUE,
              value |-> Null]

\* A page script calls DataLoader.load(url).
load ==
    /\ CallsMade < MaxCalls
    /\ Len(reqs) < MaxRequests
    /\ \E url \in PageUrls : reqs' = Append(reqs, loadStart(url, 0))
    /\ UNCHANGED <<cache, inits, calcVars, formVars, scriptVars, pageVars, server, cleared>>

\* await fetch(url) settles with an ok response.
fetchOk ==
    /\ \E i \in 1..Len(reqs) :
          /\ reqs[i].pc = "fetching"
          /\ reqs' = [reqs EXCEPT ![i].pc = "parsing"]
    /\ UNCHANGED <<cache, inits, calcVars, formVars, scriptVars, pageVars, server, cleared>>

\* fetch rejects, or the response is not ok: load throws.
fetchFail ==
    /\ \E i \in 1..Len(reqs) :
          /\ reqs[i].pc = "fetching"
          /\ reqs' = [reqs EXCEPT ![i].pc = "failed"]
    /\ UNCHANGED <<cache, inits, calcVars, formVars, scriptVars, pageVars, server, cleared>>

\* await response.json() settles: the data is cached and returned.
parseOk ==
    /\ \E i \in 1..Len(reqs) :
          /\ reqs[i].pc = "parsing"
          /\ \E data \in Bodies(reqs[i].url) :
                /\ cache' = [cache EXCEPT ![reqs[i].url] = Some(data)]
                /\ reqs' = [reqs EXCEPT ![i].pc = "done", ![i].value = Some(data)]
    /\ UNCHANGED <<inits, calcVars, formVars, scriptVars, pageVars, server, cleared>>

\* response.json() rejects: load throws, nothing is cached.
parseFail ==
    /\ \E i \in 1..Len(reqs) :
          /\ reqs[i].pc = "parsing"
          /\ reqs' = [reqs EXCEPT ![i].pc = "failed"]
    /\ UNCHANGED <<cache, inits, calcVars, formVars, scriptVars, pageVars, server, cleared>>

\* Calculator.init up to its await: getRoutes, getFees and getRules are
\* called one after the other and their promises handed to Promise.all.
\* Nothing keeps a caller from calling init while an earlier call waits.
initStart ==
    /\ CallsMade < MaxCalls
    /\ Len(reqs) + 3 <= MaxRequests
    /\ LET k == Len(inits) + 1
       IN  /\ reqs' = reqs \o <<loadStart(RoutesUrl, k), loadStart(FeesUrl, k),
                                loadStart(RulesUrl, k)>>
           /\ inits' = Append(inits, [pc |-> "waiting", first |-> Len(reqs) + 1])
    /\ UNCHANGED <<cache, calcVars, formVars, scriptVars, pageVars, server, cleared>>

\* Variant of initResolve: the tables are assigned once the routes load is
\* done, whatever the state of the other two loads.
initResolve_Eager ==
    /\ \E k \in 1..Len(inits) :
          /\ inits[k].pc = "waiting"
          /\ reqs[inits[k].first].pc = "done"
          /\ routes' = reqs[inits[k].first].value
          /\ fees' = reqs[inits[k].first + 1].value
          /\ rules' = reqs[inits[k].first + 2].value
          /\ inits' = [inits EXCEPT ![k].pc = "done"]
    /\ UNCHANGED <<params, result, cache, reqs, formVars, scriptVars, pageVars, server, cleared>>

\* Promise.all fulfils: the three values are assigned in one step.
initResolve ==
    /\ \E k \in 1..Len(inits) :
          /\ inits[k].pc = "waiting"
          /\ \A j \in 0..2 : reqs[inits[k].first + j].pc = "done"
          /\ routes' = reqs[inits[k].first].value
          /\ fees' = reqs[inits[k].first + 1].value
          /\ rules' = reqs[inits[k].first + 2].value
          /\ inits' = [inits EXCEPT ![k].pc = "done"]
    /\ UNCHANGED <<params, result, cache, reqs, formVars, scriptVars, pageVars, server, cleared>>

\* Promise.all rejects with the error of a failed load: init logs and rethrows.
initReject ==
    /\ \E k \in 1..Len(inits) :
          /\ inits[k].pc = "waiting"
          /\ \E j \in 0..2 : reqs[inits[k].first + j].pc = "failed"
          /\ inits' = [inits EXCEPT ![k].pc = "failed"]
    /\ UNCHANGED <<calcVars, cache, reqs, formVars, scriptVars, pageVars, server, cleared>>

\* DataLoader.clearCache() on a cache that holds something (on an empty
\* cache the call changes nothing).
clearCache ==
    /\ cache # EmptyCache
    /\ cache' = EmptyCache
    /\ cleared' = TRUE
    /\ UNCHANGED <<reqs, inits, calcVars, formVars, scriptVars, pageVars, server>>

NextLoader ==
    \/ load \/ fetchOk \/ fetchFail \/ parseOk \/ parseFail
    \/ initStart \/ initResolve \/ initReject \/ clearCache

SpecLoader == InitSite /\ [][NextLoader]_vars

\* The calculator: calls of calculate, each consumed by its caller.
Next ==
    \/ Calculate
    \/ Return

Spec == Init /\ [][Next]_vars

\* The requests for url that issued a fetch and did not fail.
LiveFetches(url) ==
    {i \in 1..Len(reqs) : reqs[i].url = url /\ reqs[i].fetched /\ reqs[i].pc # "failed"}

\* C11: as long as clearCache has not been called, whatever the
\* interleaving of the load requests (also requests issued while an earlier
\* one for the same URL is in flight), a URL that is being or has been
\* loaded is fetched at most once.
C11_OneFetchPerUrl ==
    ~cleared => \A url \in Urls : Cardinality(LiveFetches(url)) <= 1

\* The requests issued by the k-th call of init.
LoadsOf(k) == {i \in 1..Len(reqs) : reqs[i].by = k}

\* C12: init sets the three tables only after its three loads have all
\* succeeded; when a load fails init fails, issues no second load of any
\* table, the failed load caches nothing, and that init sets no table: the
\* three tables are at every point all set or all unset.
C12_InitAllOrNothing ==
    /\ (routes = <<>>) = (fees = <<>>)
    /\ (fees = <<>>) = (rules = <<>>)
    /\ routes # <<>> =>
          \E k \in 1..Len(inits) :
              /\ inits[k].pc = "done"
              /\ \A i \in LoadsOf(k) : reqs[i].pc = "done"
              /\ routes = reqs[inits[k].first].value
              /\ fees = reqs[inits[k].first + 1].value
              /\ rules = reqs[inits[k].first + 2].value
              /\ routes[1] \in Bodies(RoutesUrl)
              /\ fees[1] \in Bodies(FeesUrl)
              /\ rules[1] \in Bodies(RulesUrl)
    /\ \A k \in 1..Len(inits) :
          /\ inits[k].pc = "failed" => \E i \in LoadsOf(k) : reqs[i].pc = "failed"
          /\ \A url \in {RoutesUrl, FeesUrl, RulesUrl} :
                Cardinality({i \in LoadsOf(k) : reqs[i].url = url}) = 1
          /\ Cardinality(LoadsOf(k)) = 3
    /\ \A i \in 1..Len(reqs) :
          (reqs[i].pc = "failed" /\ cache[reqs[i].url] # <<>>) =>
              \E j \in 1..Len(reqs) :
                  /\ j # i
                  /\ reqs[j].url = reqs[i].url
                  /\ reqs[j].fetched
                  /\ reqs[j].pc = "done"

\* An init whose rules load failed after the other two succeeded.
C12_Witness ==
    /\ Len(inits) >= 1
    /\ inits[1].pc = "failed"
    /\ reqs[inits[1].first].pc = "done"
    /\ reqs[inits[1].first + 1].pc = "done"
    /\ reqs[inits[1].first + 2].pc = "failed"
    /\ cache[RoutesUrl] # <<>>
    /\ cache[RulesUrl] = <<>>
    /\ routes = <<>>
    /\ fees = <<>>
    /\ rules = <<>>

(***************************************************************************)
(* The form (Calculator.renderForm, handleCalculate, displayResult).       *)
(*   form    : Null, or the elements renderForm created.                   *)
(*   fields  : Null, or the field texts handleCalculate read last.         *)
(*   display : Null (no #calc-result), or its content.                     *)
(*   calls   : how often the last handleCalculate called calculate.        *)
(***************************************************************************)

\* A route table with the fields renderForm reads.
FormRouteIds == {FormRoutes[i].route_id : i \in 1..Len(FormRoutes)} \cup {UnknownRouteId}

\* Texts a number input may hold when the handler runs.
\* Characters without an escape: U+000B (line tabulation), U+00A0 (no-break
\* space), U+FEFF (zero width no-break space), U+1680 (ogham space mark).
VT == ""
NBSP == " "
ZWNBSP == "﻿"
OghamSpace == " "

DurationTexts == {"", "0", "12", "abc", "0x10", "1.5"}
ApplicantTexts == {"", "0", "10", "11", "abc", "\t5", NBSP \o VT \o "7"}
DependantTexts == {"", "-1", "10", "11", "abc"}

\* The value of a digit character (decimal or hexadecimal); -1 for any
\* other character.
DigitValue(c) ==
    CASE c = "0" -> 0 [] c = "1" -> 1 [] c = "2" -> 2 [] c = "3" -> 3
      [] c = "4" -> 4 [] c = "5" -> 5 [] c = "6" -> 6 [] c = "7" -> 7
      [] c = "8" -> 8 [] c = "9" -> 9
      [] c \in {"a", "A"} -> 10 [] c \in {"b", "B"} -> 11
      [] c \in {"c", "C"} -> 12 [] c \in {"d", "D"} -> 13
      [] c \in {"e", "E"} -> 14 [] c \in {"f", "F"} -> 15
      [] OTHER -> -1

IsDigit(c, radix) == DigitValue(c) >= 0 /\ DigitValue(c) < radix

\* The number of leading digits of s in the given radix from position i on.
RECURSIVE DigitRun(_, _, _)
DigitRun(s, i, radix) ==
    IF i > Len(s) \/ ~IsDigit(SubSeq(s, i, i), radix) THEN 0
    ELSE 1 + DigitRun(s, i + 1, radix)

\* The value of the n digits of s that start at position i.
RECURSIVE DigitsValue(_, _, _, _)
DigitsValue(s, i, n, radix) ==
    IF n = 0 THEN 0
    ELSE radix * DigitsValue(s, i, n - 1, radix)
            + DigitValue(SubSeq(s, i + n - 1, i + n - 1))

\* The characters parseInt skips at the start (StrWhiteSpaceChar: white
\* space and line terminators).  The remaining ones, U+2000 to U+200A,
\* U+2028, U+2029, U+202F, U+205F and U+3000, cannot be written in a string
\* of this notation, so no text of the model holds them.
WhiteSpace == {" ", "\t", "\n", "\r", "\f", VT, NBSP, ZWNBSP, OghamSpace}

\* The number of leading white-space characters of s from position i on.
RECURSIVE BlankRun(_, _)
BlankRun(s, i) ==
    IF i > Len(s) \/ SubSeq(s, i, i) \notin WhiteSpace THEN 0
    ELSE 1 + BlankRun(s, i + 1)

\* parseInt(s) of a string, no radix given: leading white space, an optional
\* sign, an optional 0x or 0X (the digits are then hexadecimal), then the
\* longest run of digits; Null is NaN.
parseInt(s) ==
    LET start == 1 + BlankRun(s, 1)
        signed == start <= Len(s) /\ SubSeq(s, start, start) \in {"-", "+"}
        first == IF signed THEN start + 1 ELSE start
        hex == first + 1 <= Len(s) /\ SubSeq(s, first, first + 1) \in {"0x", "0X"}
        radix == IF hex THEN 16 ELSE 10
        digits == IF hex THEN first + 2 ELSE first
        n == DigitRun(s, digits, radix)
        magnitude == DigitsValue(s, digits, n, radix)
    IN  IF n = 0 THEN Null
        ELSE IF signed /\ SubSeq(s, start, start) = "-" THEN Some(-magnitude)
        ELSE Some(magnitude)

\* parseInt(input?.value || default): a missing element and an empty value
\* give the default, converted to a string by parseInt.
parseField(value, default) ==
    IF value = Null \/ value[1] = "" THEN parseInt(ToString(default))
    ELSE parseInt(value[1])

\* isNaN(n) || n < low || n > high
outOfRange(n, low, high) == n = Null \/ n[1] < low \/ n[1] > high

\* The elements created by renderForm for a route of the table.
renderedForm(route) ==
    [routeId |-> route.route_id,
     applyFrom |-> IF route.apply_from_options = "both"
                      THEN [kind |-> "select", value |-> "outside_uk"]
                      ELSE [kind |-> "hidden", value |-> route.apply_from_options],
     duration |-> IF route.duration_policy = "fixed" /\ route.duration_options # Null
                      THEN Some([kind |-> "select",
                                 value |-> ToString(route.duration_options[1][1])])
                  ELSE IF route.duration_policy = "custom"
                      THEN Some([kind |-> "number", value |-> "12"])
                  ELSE IF route.duration_policy = "permanent"
                      THEN Some([kind |-> "hidden", value |-> "0"])
                  ELSE Null,
     hasPriority |-> InArray(route.extras_supported, "priority"),
     hasSuperPriority |-> InArray(route.extras_supported, "super_priority")]

\* The texts the duration element of the form f can hold at submit time.
durationValues(f) ==
    IF f.duration = Null THEN {Null}
    ELSE IF f.duration[1].kind = "hidden" THEN {Some(f.duration[1].value)}
    ELSE IF f.duration[1].kind = "select"
        THEN LET options == findRoute(f.routeId)[1].duration_options[1]
             IN  {Some(ToString(options[i])) : i \in 1..Len(options)}
    ELSE {Some(t) : t \in DurationTexts}

\* The field contents handleCalculate may find in the form f.
FieldsOf(f) ==
    [applyFrom : IF f.applyFrom.kind = "select"
                    THEN {Some("outside_uk"), Some("inside_uk")}
                    ELSE {Some(f.applyFrom.value)},
     duration : durationValues(f),
     applicants : {Some(t) : t \in ApplicantTexts},
     dependants : {Some(t) : t \in DependantTexts},
     addPriority : IF f.hasPriority THEN BOOLEAN ELSE {FALSE},
     addSuperPriority : IF f.hasSuperPriority THEN BOOLEAN ELSE {FALSE}]

\* Variant of validationErrors: validation stops at the first violated rule.
validationErrors_FirstOnly(v) ==
    LET duration == parseField(v.duration, 0)
        applicants == parseField(v.applicants, 1)
        dependants == parseField(v.dependants, 0)
    IN  IF v.applyFrom = Null \/ v.applyFrom[1] = ""
            THEN <<"Please select where you are applying from.">>
        ELSE IF v.duration # Null /\ (duration = Null \/ duration[1] < 1)
            THEN <<"Please enter a valid visa duration (at least 1 month).">>
        ELSE IF outOfRange(applicants, 1, 10)
            THEN <<"Number of main applicants must be between 1 and 10.">>
        ELSE IF outOfRange(dependants, 0, 10)
            THEN <<"Number of dependants must be between 0 and 10.">>
        ELSE <<>>

\* The errors array handleCalculate builds from the field contents v.
validationErrors(v) ==
    LET duration == parseField(v.duration, 0)
        applicants == parseField(v.applicants, 1)
        dependants == parseField(v.dependants, 0)
    IN  (IF v.applyFrom = Null \/ v.applyFrom[1] = ""
            THEN <<"Please select where you are applying from.">> ELSE <<>>)
        \o
        (IF v.duration # Null /\ (duration = Null \/ duration[1] < 1)
            THEN <<"Please enter a valid visa duration (at least 1 month).">> ELSE <<>>)
        \o
        (IF outOfRange(applicants, 1, 10)
            THEN <<"Number of main applicants must be between 1 and 10.">> ELSE <<>>)
        \o
        (IF outOfRange(dependants, 0, 10)
            THEN <<"Number of dependants must be between 0 and 10.">> ELSE <<>>)

\* The params object handleCalculate passes to calculate.
submittedParams(routeId, v) ==
    [routeId |-> routeId,
     applyFrom |-> v.applyFrom[1],
     duration |-> parseField(v.duration, 0)[1],
     applicants |-> parseField(v.applicants, 1)[1],
     dependants |-> parseField(v.dependants, 0)[1],
     addPriority |-> v.addPriority,
     addSuperPriority |-> v.addSuperPriority]

\* The calculator of a page whose init has succeeded: the three tables have
\* been fetched, cached and assigned.
InitForm ==
    /\ server = "form"
    /\ Initialized(FormRoutes, BaseFees, ServedRules)

\* Calculator.renderForm(routeId, containerId) on an existing container.
renderForm ==
    /\ \E routeId \in FormRouteIds :
          LET route == findRoute(routeId)
          IN  IF route = Null
                  THEN /\ form' = Null
                       /\ display' = Null
                  ELSE /\ form' = Some(renderedForm(route[1]))
                       /\ display' = Some([kind |-> "hidden"])
    /\ fields' = Null
    /\ calls' = 0
    /\ params' = Null
    /\ result' = Null
    /\ UNCHANGED <<routes, fees, rules, loaderVars, scriptVars, pageVars>>

\* The submit handler renderForm registered: Calculator.handleCalculate
\* (routeId) and, when the input is valid, calculate and displayResult.
handleCalculate ==
    /\ form # Null
    /\ \E v \in FieldsOf(form[1]) :
          LET errors == validationErrors(v)
              p == submittedParams(form[1].routeId, v)
          IN  /\ fields' = Some(v)
              /\ IF Len(errors) > 0
                    THEN /\ display' = Some([kind |-> "errors", messages |-> errors])
                         /\ calls' = 0
                         /\ params' = Null
                         /\ result' = Null
                    ELSE \E r \in {calculate(p)} :
                         /\ calls' = 1
                         /\ params' = Some(p)
                         /\ result' = Some(r)
                         /\ display' = IF r.kind = "ok"
                                          THEN Some([kind |-> "breakdown",
                                                     breakdown |-> r.breakdown,
                                                     total |-> r.total])
                                          ELSE display
    /\ UNCHANGED <<routes, fees, rules, form, loaderVars, scriptVars, pageVars>>

NextForm == renderForm \/ handleCalculate

SpecForm == InitForm /\ [][NextForm]_vars

(***************************************************************************)
(* Vocabulary of the form properties, stated on the field texts without    *)
(* the handler's parsing operators.  A field that is absent or empty       *)
(* stands for its default (duration 0, applicants 1, dependants 0).        *)
(***************************************************************************)
Submitted == fields # Null

\* The texts that are whole numbers, with their values: decimal numerals,
\* also with white space in front, and hexadecimal numerals.
WholeNumbers ==
    {<<"-1", -1>>, <<"0", 0>>, <<"1", 1>>, <<"6", 6>>, <<"10", 10>>,
     <<"11", 11>>, <<"12", 12>>, <<"24", 24>>, <<"\t5", 5>>, <<"0x10", 16>>,
     <<NBSP \o VT \o "7", 7>>}

IsWhole(text) == \E w \in WholeNumbers : w[1] = text
WholeValue(text) == (CHOOSE w \in WholeNumbers : w[1] = text)[2]

TextOr(field, default) == IF field = <<>> \/ field[1] = "" THEN default ELSE field[1]

\* The count a field holds is a whole number in low..high.
InRange(field, default, low, high) ==
    LET text == TextOr(field, default)
    IN  IsWhole(text) /\ low <= WholeValue(text) /\ WholeValue(text) <= high

LocationMissing == fields[1].applyFrom = <<>> \/ fields[1].applyFrom[1] = ""
DurationInvalid ==
    /\ fields[1].duration # <<>>
    /\ LET text == TextOr(fields[1].duration, "0")
       IN  ~(IsWhole(text) /\ WholeValue(text) >= 1)
ApplicantsInvalid == ~InRange(fields[1].applicants, "1", 1, 10)
DependantsInvalid == ~InRange(fields[1].dependants, "0", 0, 10)

AnyViolation ==
    LocationMissing \/ DurationInvalid \/ ApplicantsInvalid \/ DependantsInvalid

Shows(message) ==
    Cardinality({i \in 1..Len(display[1].messages) : display[1].messages[i] = message})

Flag(b) == IF b THEN 1 ELSE 0

\* C13: when a validation rule is violated at submit, calculate is not called,
\* no breakdown is displayed and the message list holds exactly one message
\* for every violated rule; when none is violated, calculate is called
\* exactly once with the form's values.
C13_ValidationBlocksCalculation ==
    Submitted =>
        IF AnyViolation
            THEN /\ calls = 0
                 /\ params = <<>>
                 /\ display[1].kind = "errors"
                 /\ Shows("Please select where you are applying from.")
                       = Flag(LocationMissing)
                 /\ Shows("Please enter a valid visa duration (at least 1 month).")
                       = Flag(DurationInvalid)
                 /\ Shows("Number of main applicants must be between 1 and 10.")
                       = Flag(ApplicantsInvalid)
                 /\ Shows("Number of dependants must be between 0 and 10.")
                       = Flag(DependantsInvalid)
                 /\ Len(display[1].messages) =
                       Flag(LocationMissing) + Flag(DurationInvalid)
                           + Flag(ApplicantsInvalid) + Flag(DependantsInvalid)
            ELSE /\ calls = 1
                 /\ display[1].kind # "errors"
                 /\ params = << [routeId |-> form[1].routeId,
                                 applyFrom |-> fields[1].applyFrom[1],
                                 duration |-> WholeValue(TextOr(fields[1].duration, "0")),
                                 applicants |-> WholeValue(TextOr(fields[1].applicants, "1")),
                                 dependants |-> WholeValue(TextOr(fields[1].dependants, "0")),
                                 addPriority |-> fields[1].addPriority,
                                 addSuperPriority |-> fields[1].addSuperPriority] >>

\* Three rules violated at once, all three reported, nothing calculated.
C13_Witness ==
    /\ Submitted
    /\ form[1].routeId = "skilled-worker"
    /\ fields[1].duration = <<"0">>
    /\ fields[1].applicants = <<"11">>
    /\ fields[1].dependants = <<"-1">>
    /\ calls = 0
    /\ display[1].kind = "errors"
    /\ Len(display[1].messages) = 3

\* The route the rendered form belongs to.
FormRouteOf ==
    FormRoutes[CHOOSE i \in 1..Len(FormRoutes) : FormRoutes[i].route_id = form[1].routeId]

\* C16: for a route whose duration policy is 'permanent' the duration rule
\* does not apply: submitting its rendered form with a location value and
\* counts in range produces no validation error and calls calculate.
C16_PermanentNeedsNoDuration ==
    (/\ Submitted
     /\ FormRouteOf.duration_policy = "permanent"
     /\ ~LocationMissing
     /\ ~ApplicantsInvalid
     /\ ~DependantsInvalid)
        => (calls = 1 /\ display[1].kind # "errors")

(***************************************************************************)
(* The validation script (scripts/validate.js).  A run reads the three     *)
(* tables and the content directory and ends with process.exit.            *)
(***************************************************************************)
MaxRoutes == 2

requiredFields ==
    <<"route_id", "name", "category", "indexable", "apply_from_options",
      "duration_policy", "ihs_policy">>

RequiredSet == {requiredFields[i] : i \in 1..Len(requiredFields)}

\* A route of routes.json as the script reads it: defined is the set of
\* required fields that are not undefined.  route_id is Some(id) for a
\* string, and Null for null (then "route_id" is in defined) and for a
\* route without the field (then it is not).
ScriptRoute(id, missing, items, indexable) ==
    [route_id |-> IF "route_id" \in missing THEN Null ELSE id,
     defined |-> RequiredSet \ missing,
     fee_items |-> items,
     indexable |-> IF "indexable" \in missing THEN Null ELSE Some(indexable)]

ScriptRoutes ==
    {ScriptRoute(id, missing, items, indexable) :
        id \in {Some("skilled-worker"), Some("student-visa"), Null},
        missing \in {{}, {"name"}, {"route_id", "ihs_policy"}},
        items \in {Null, Some(<<"visa_fee">>), Some(<<"visa_fee", "ghost_fee">>),
                   Some(<<"constructor">>), Some(<<"draft_fee">>)},
        indexable \in BOOLEAN}

RECURSIVE SeqsUpTo(_, _)
SeqsUpTo(S, n) ==
    IF n = 0 THEN {<<>>}
    ELSE SeqsUpTo(S, n - 1)
            \cup {Append(q, x) : q \in {r \in SeqsUpTo(S, n - 1) : Len(r) = n - 1}, x \in S}

\* fees.json as the script reads it: the object's own keys and their values;
\* draft_fee is a key whose value is null.
ScriptFees ==
    [visa_fee |-> Fee(Some(1035), Some(719)),
     priority |-> Fee(Some(500), Some(500)),
     draft_fee |-> Null]

\* The property names every object inherits from Object.prototype; each
\* holds a function or an object.
ObjectPrototypeKeys ==
    {"constructor", "toString", "toLocaleString", "valueOf", "hasOwnProperty",
     "isPrototypeOf", "propertyIsEnumerable", "__proto__", "__defineGetter__",
     "__defineSetter__", "__lookupGetter__", "__lookupSetter__"}

ScriptFiles == {"routes.json", "fees.json", "rules.json"}

\* What loadJSON returns for each file: "failed" when reading or parsing
\* throws, "null" when the file holds null (or another falsy value: 0, false,
\* ""), "value" otherwise.
AllParsed == [f \in ScriptFiles |-> "value"]

FileResults ==
    {[AllParsed EXCEPT !["routes.json"] = "failed"],
     [AllParsed EXCEPT !["fees.json"] = "failed", !["rules.json"] = "failed"],
     [AllParsed EXCEPT !["fees.json"] = "null"],
     [AllParsed EXCEPT !["routes.json"] = "failed", !["rules.json"] = "null"]}

\* The files under content/routes, by base name.
ContentSets ==
    {{}, {"skilled-worker", "student-visa"},
     {"skilled-worker", "student-visa", "undefined"},
     {"skilled-worker", "student-visa", "null"}}

\* What a run finds on disk: what each file parses to, whether routes.json
\* holds an array, its routes, the fee table and the content files.
ScriptInputs ==
    [files : {AllParsed}, isArray : {TRUE},
     routes : SeqsUpTo(ScriptRoutes, MaxRoutes),
     fees : {ScriptFees}, content : ContentSets]
      \cup [files : FileResults, isArray : {TRUE},
            routes : SeqsUpTo(ScriptRoutes, 1),
            fees : {ScriptFees}, content : {{}}]
      \cup [files : {AllParsed}, isArray : {FALSE},
            routes : {<<>>},
            fees : {ScriptFees}, content : {{}}]

\* loadJSON for the three files: one error per file that fails to parse.
parseErrors(in) == Cardinality({f \in ScriptFiles : in.files[f] = "failed"})

\* !routes || !fees || !rules
aborts(in) == \E f \in ScriptFiles : in.files[f] # "value"

\* id === other for two entries of routeIds: the same string, both null or
\* both undefined.
sameId(a, b) ==
    /\ a.route_id = b.route_id
    /\ ("route_id" \in a.defined) = ("route_id" \in b.defined)

\* routeIds.filter((id, index) => routeIds.indexOf(id) !== index)
duplicates(rs) ==
    {i \in 1..Len(rs) : \E j \in 1..(i - 1) : sameId(rs[j], rs[i])}

\* Whether fees[feeKey] is truthy: an own key by its value, a name inherited
\* from Object.prototype always, any other name never.
feeFound(table, feeKey) ==
    IF feeKey \in DOMAIN table THEN table[feeKey] # Null
    ELSE feeKey \in ObjectPrototypeKeys

\* The missingFees array: one entry per listed fee key with !fees[feeKey].
missingFees(in) ==
    UNION {{<<i, j>> : j \in {k \in 1..Len(in.routes[i].fee_items[1]) :
                                ~feeFound(in.fees, in.routes[i].fee_items[1][k])}} :
            i \in {n \in 1..Len(in.routes) : in.routes[n].fee_items # Null}}

\* One error per route and required field that is undefined.
missingFields(in) ==
    {<<i, f>> \in (1..Len(in.routes)) \X RequiredSet : f \notin in.routes[i].defined}

\* The base name of `${route.route_id}.json`.
contentName(route) ==
    IF route.route_id # Null THEN route.route_id[1]
    ELSE IF "route_id" \in route.defined THEN "null"
    ELSE "undefined"

\* One warning per indexable route without a content file.
missingContent(in) ==
    {i \in 1..Len(in.routes) :
        /\ in.routes[i].indexable = Some(TRUE)
        /\ contentName(in.routes[i]) \notin in.content}

\* The summary: process.exit(0) when nothing was counted, otherwise
\* process.exit(errors > 0 ? 1 : 0).
exitStatus(errors, warnings) ==
    IF errors = 0 /\ warnings = 0 THEN 0
    ELSE IF errors > 0 THEN 1 ELSE 0

\* A run of the script on the input in: the counters and the exit status.
\* routes.map throws a TypeError when routes.json holds no array, and node
\* ends a process with an uncaught exception with status 1.
validate(in) ==
    IF aborts(in)
        THEN [errors |-> parseErrors(in) + 1, warnings |-> 0, exit |-> 1,
              threw |-> FALSE]
    ELSE IF ~in.isArray
        THEN [errors |-> 0, warnings |-> 0, exit |-> 1, threw |-> TRUE]
    ELSE LET errors == (IF duplicates(in.routes) # {} THEN 1 ELSE 0)
                           + Cardinality(missingFees(in))
                           + Cardinality(missingFields(in))
             warnings == Cardinality(missingContent(in))
         IN  [errors |-> errors, warnings |-> warnings,
              exit |-> exitStatus(errors, warnings), threw |-> FALSE]

\* node scripts/validate.js: one process, which runs to its exit.
runValidate ==
    /\ scriptRun = Null
    /\ \E in \in ScriptInputs :
          scriptRun' = Some([input |-> in, outcome |-> validate(in)])
    /\ UNCHANGED <<calcVars, loaderVars, formVars, pageVars>>

SpecValidate == InitSite /\ [][runValidate]_vars

\* The hard errors of the last run's input: a table that cannot be parsed,
\* a route_id two routes share, a listed fee key that is no key of the fee
\* table, a required field a route lacks.
HardError ==
    LET in == scriptRun[1].input
        rs == in.routes
    IN  \/ \E f \in {"routes.json", "fees.json", "rules.json"} : in.files[f] = "failed"
        \/ \E i, j \in 1..Len(rs) :
              /\ i # j
              /\ "route_id" \in rs[i].defined
              /\ "route_id" \in rs[j].defined
              /\ rs[i].route_id = rs[j].route_id
        \/ \E i \in 1..Len(rs) :
              /\ rs[i].fee_items # <<>>
              /\ \E j \in 1..Len(rs[i].fee_items[1]) :
                    rs[i].fee_items[1][j] \notin DOMAIN in.fees
        \/ \E i \in 1..Len(rs) :
              \E f \in {"route_id", "name", "category", "indexable",
                        "apply_from_options", "duration_policy", "ihs_policy"} :
                  f \notin rs[i].defined

\* C14: the script exits with status 1 exactly when a hard error was found
\* (unparsable table, duplicated route_id, fee key absent from the fee table,
\* required route field missing) and with status 0 otherwise; warnings about
\* missing content files never change the status.
C14_ExitStatus ==
    scriptRun # <<>> =>
        /\ scriptRun[1].outcome.exit = (IF HardError THEN 1 ELSE 0)
        /\ HardError <=> scriptRun[1].outcome.errors > 0

(***************************************************************************)
(* Base path resolution (DataLoader.getBasePath / resolvePath).  A page of *)
(* the site is loaded, which fixes window.location.pathname, and the       *)
(* loader then resolves data paths against it.                             *)
(***************************************************************************)
MaxDepth == 4

\* Where the site is served: the domain root, or a repository subpath.
SiteRoots == {"/", "/uk-visa-calculator/"}

Segments == {"uk", "study"}

PageFiles == {"", "index.html"}

DataPaths ==
    {"data/routes.json", "data/fees.json", "data/rules.json", "data/site.json"}

\* A page: the site root it is served under, the directories from the site
\* root down to the page, and the file name the URL ends in ("" when the URL
\* ends in '/').
Pages == [site : SiteRoots, dirs : SeqsUpTo(Segments, MaxDepth), file : PageFiles]

RECURSIVE JoinDirs(_)
JoinDirs(dirs) ==
    IF dirs = <<>> THEN "" ELSE dirs[1] \o "/" \o JoinDirs(Tail(dirs))

\* window.location.pathname of a page.
pathnameOf(page) == page.site \o JoinDirs(page.dirs) \o page.file

\* (path.match(/\//g) || []).length
RECURSIVE countSlashes(_)
countSlashes(s) ==
    IF Len(s) = 0 THEN 0
    ELSE (IF SubSeq(s, 1, 1) = "/" THEN 1 ELSE 0) + countSlashes(SubSeq(s, 2, Len(s)))

endsWith(s, c) == Len(s) > 0 /\ SubSeq(s, Len(s), Len(s)) = c

getBasePath(path) ==
    LET depth == countSlashes(path) - 1
    IN  IF depth = 0 \/ path = "/" THEN "./"
        ELSE IF depth = 1 /\ endsWith(path, "/") THEN "../"
        ELSE IF depth = 2 /\ endsWith(path, "/") THEN "../../"
        ELSE IF depth = 3 /\ endsWith(path, "/") THEN "../../../"
        ELSE "./"

resolvePath(location, path) == getBasePath(location) \o path

\* The browser loads a page of the site.
navigate ==
    /\ \E page \in Pages :
          pathname' = Some([page |-> page, pathname |-> pathnameOf(page)])
    /\ resolved' = Null
    /\ UNCHANGED <<calcVars, loaderVars, formVars, scriptVars>>

\* DataLoader.resolvePath(p) on the current page.
resolve ==
    /\ pathname # Null
    /\ resolved = Null
    /\ \E p \in DataPaths :
          resolved' = Some([path |-> p, url |-> resolvePath(pathname[1].pathname, p)])
    /\ UNCHANGED <<pathname, calcVars, loaderVars, formVars, scriptVars>>

NextPage == navigate \/ resolve

SpecPage == InitSite /\ [][NextPage]_vars

\* The relative base that climbs d directories.
RECURSIVE Climb(_)
Climb(d) == IF d = 0 THEN "" ELSE "../" \o Climb(d - 1)

ClimbToRoot(d) == IF d = 0 THEN "./" ELSE Climb(d)

\* C15: for a page at directory depth d under the site root, whether its URL
\* ends in '/' or in a file name and whether the site is served at the domain
\* root or under a repository subpath, resolvePath(p) is p prefixed with the
\* base that climbs exactly to the site root: './' at depth 0, d times '../'
\* at depth d.
C15_BaseClimbsToSiteRoot ==
    resolved # <<>> =>
        resolved[1].url = ClimbToRoot(Len(pathname[1].page.dirs)) \o resolved[1].path

====
